---------------------------- MODULE Spec2Model ----------------------------
(***************************************************************************)
(* A model of the cf-proxy edge gateway.  The repository holds four        *)
(* handler families of the same gateway:                                   *)
(*   "V0"  src/src/index.js              one flat handler, /ai and         *)
(*                                        /registry prefixes               *)
(*   "A"   src/unnamed/part_000          /v2/ gateway, in-place namespace  *)
(*                                        rewrite, /v2/token               *)
(*   "B"   src/unnamed/part_001:1-377    /v2/ gateway, 301 namespace       *)
(*                                        redirect, /v2/auth               *)
(*   "C"   src/unnamed/part_001:379-684  /v2/ gateway over one merged      *)
(*                                        table, /v2/token                 *)
(* A string is a sequence of atoms.  The atoms "/", ":" and "." are the    *)
(* characters the code tests for; every other atom is a run of characters  *)
(* the code never looks into.  No atom is a prefix of another, so          *)
(* startsWith, slice, split and includes on the JavaScript string are the  *)
(* same operations on the sequence, and two prefixes of one string compare *)
(* by Len as they compare by length.                                       *)
(***************************************************************************)
EXTENDS Naturals, Sequences, FiniteSets, TLC

VARIABLES variant, pc, req, ctx, calls, replies, resp, rt

vars == <<variant, pc, req, ctx, calls, replies, resp, rt>>

(***************************************************************************)
(* Bounds of the model.                                                    *)
(***************************************************************************)
\* longest free tail appended to a configured prefix or a /v2/ head
MaxTail == 2
\* most entries of a generated route table
MaxTable == 2
\* most 301 redirects of the gateway a client follows in a row
MaxHops == 2

(***************************************************************************)
(* String helpers: the JavaScript String methods the handlers use.         *)
(***************************************************************************)
Empty == <<>>

StartsWith(s, p) == Len(p) <= Len(s) /\ SubSeq(s, 1, Len(p)) = p

\* s.slice(n) and s.substring(n), n >= 0
Slice(s, n) == SubSeq(s, n + 1, Len(s))

\* positions at which sub occurs in s
Occurrences(s, sub) ==
    {i \in 1..(Len(s) + 1 - Len(sub)) : SubSeq(s, i, i + Len(sub) - 1) = sub}

Includes(s, sub) == Occurrences(s, sub) # {}

Min(S) == CHOOSE m \in S : \A n \in S : m <= n

\* s.split(sep)[0]: the part before the first occurrence of sep
SplitHead(s, sep) ==
    IF Includes(s, sep) THEN SubSeq(s, 1, Min(Occurrences(s, sep)) - 1) ELSE s

\* s.split(c) for a one-atom separator c: the sequence of the parts
RECURSIVE Split(_, _)
Split(s, c) ==
    IF Includes(s, <<c>>)
    THEN LET i == Min(Occurrences(s, <<c>>))
         IN  <<SubSeq(s, 1, i - 1)>> \o Split(Slice(s, i), c)
    ELSE <<s>>

\* parts.join(c)
RECURSIVE Join(_, _)
Join(parts, c) ==
    IF Len(parts) = 0 THEN Empty
    ELSE IF Len(parts) = 1 THEN parts[1]
    ELSE parts[1] \o <<c>> \o Join(Tail(parts), c)

\* parts.splice(at, 0, item): item inserted so that it is element at+1
Splice(parts, at, item) ==
    SubSeq(parts, 1, at) \o <<item>> \o SubSeq(parts, at + 1, Len(parts))

\* the elements of a sequence
Range(s) == {s[i] : i \in 1..Len(s)}

\* all sequences over S of length at most n
SeqsUpTo(S, n) == UNION {[1..k -> S] : k \in 0..n}

(***************************************************************************)
(* Configuration tables.                                                   *)
(***************************************************************************)
DOCKER_HUB_URL == "https://registry-1.docker.io"

DEFAULT_HEADERS == {"accept", "content-type", "authorization", "user-agent"}

\* src/index.js declares three default headers and forwards four
DEFAULT_HEADERS_V0 == {"accept", "content-type", "authorization"}

ForwardedHeadersV0 == {"accept", "content-type", "authorization", "user-agent"}

RegistryNames ==
    << <<"docker", "/", "elastic">>, <<"docker", "/", "hub">>, <<"google">>,
       <<"github">>, <<"k8s">>, <<"microsoft">>, <<"nvidia">>, <<"quay">>,
       <<"ollama">> >>

RegistryBase ==
    << "https://docker.elastic.co", DOCKER_HUB_URL, "https://gcr.io",
       "https://ghcr.io", "https://registry.k8s.io", "https://mcr.microsoft.com",
       "https://nvcr.io", "https://quay.io", "https://registry.ollama.ai" >>

AiNames ==
    << "discord", "telegram", "openai", "claude", "gemini", "meta", "groq",
       "xai", "cohere", "huggingface", "together", "novita", "portkey",
       "fireworks", "openrouter" >>

AiBase ==
    << "https://discord.com/api", "https://api.telegram.org",
       "https://api.openai.com", "https://api.anthropic.com",
       "https://generativelanguage.googleapis.com", "https://www.meta.ai/api",
       "https://api.groq.com/openai", "https://api.x.ai", "https://api.cohere.ai",
       "https://api.huggingface.co", "https://api.together.ai",
       "https://api.novita.ai", "https://api.portkey.ai",
       "https://api.fireworks.ai", "https://openrouter.ai/api" >>

AiAllowed(name) ==
    CASE name = "claude" -> {"anthropic-version"}
      [] name = "gemini" -> {"x-goog-api-key"}
      [] name = "xai" -> {"x-api-key"}
      [] OTHER -> {}

AiEntry(i) ==
    [key |-> <<"/", "ai", "/", AiNames[i]>>, baseUrl |-> AiBase[i],
     allowedHeaders |-> AiAllowed(AiNames[i])]

\* registryConfigs of part_000 and part_001:8-18: keys carry no leading slash
registryConfigs ==
    [i \in 1..Len(RegistryNames) |->
        [key |-> <<"register", "/">> \o RegistryNames[i],
         baseUrl |-> RegistryBase[i], allowedHeaders |-> {}]]

\* aiConfigs of part_000 and part_001:21-37
aiConfigs == [i \in 1..Len(AiNames) |-> AiEntry(i)]

\* apiConfigs of part_001:386-411: the registries first, then the AI APIs
apiConfigs ==
    [i \in 1..Len(RegistryNames) |->
        [key |-> <<"/", "registry", "/">> \o RegistryNames[i],
         baseUrl |-> RegistryBase[i], allowedHeaders |-> {}]]
    \o aiConfigs

\* apiMapping of src/index.js: mergeConfigs([aiApis, registryApis]); its
\* docker/hub entry names https://docker.io
apiMapping ==
    aiConfigs \o
    [i \in 1..Len(RegistryNames) |->
        [key |-> <<"/", "registry", "/">> \o RegistryNames[i],
         baseUrl |-> IF RegistryNames[i] = <<"docker", "/", "hub">>
                     THEN "https://docker.io" ELSE RegistryBase[i],
         allowedHeaders |-> {}]]

\* Object.keys(table)
Keys(table) == [i \in 1..Len(table) |-> table[i].key]

\* table[key]
Lookup(table, key) ==
    table[CHOOSE i \in 1..Len(table) : table[i].key = key]

(***************************************************************************)
(* Prefix Router: the three extractPrefixAndRest functions.  The prefix of *)
(* the result is Empty where the code returns null.                        *)
(***************************************************************************)
MatchesA(pathSegment, prefix) ==
    StartsWith(pathSegment, prefix \o <<"/">>) \/ pathSegment = prefix

RECURSIVE BestMatchA(_, _, _, _)
BestMatchA(pathSegment, prefixes, i, bestMatch) ==
    IF i > Len(prefixes) THEN bestMatch
    ELSE BestMatchA(pathSegment, prefixes, i + 1,
            IF MatchesA(pathSegment, prefixes[i])
               /\ (bestMatch = Empty \/ Len(prefixes[i]) > Len(bestMatch))
            THEN prefixes[i] ELSE bestMatch)

\* part_000:221-238 and part_001:230-247
ExtractA(pathSegment, prefixes) ==
    LET bestMatch == BestMatchA(pathSegment, prefixes, 1, Empty)
    IN  IF bestMatch # Empty
        THEN [prefix |-> bestMatch, rest |-> Slice(pathSegment, Len(bestMatch))]
        ELSE [prefix |-> Empty, rest |-> pathSegment]

NormalizedPath(pathname) ==
    IF StartsWith(pathname, <<"/">>) THEN pathname ELSE <<"/">> \o pathname

MatchesC(normalizedPath, prefix) == StartsWith(normalizedPath, prefix \o <<"/">>)

RECURSIVE BestMatchC(_, _, _, _)
BestMatchC(normalizedPath, prefixes, i, bestMatch) ==
    IF i > Len(prefixes) THEN bestMatch
    ELSE BestMatchC(normalizedPath, prefixes, i + 1,
            IF MatchesC(normalizedPath, prefixes[i])
               /\ (bestMatch = Empty \/ Len(prefixes[i]) > Len(bestMatch))
            THEN prefixes[i] ELSE bestMatch)

\* part_001:580-599
ExtractC(pathname, prefixes) ==
    LET normalizedPath == NormalizedPath(pathname)
        bestMatch == BestMatchC(normalizedPath, prefixes, 1, Empty)
    IN  IF bestMatch # Empty
        THEN [prefix |-> bestMatch, rest |-> Slice(normalizedPath, Len(bestMatch))]
        ELSE [prefix |-> Empty, rest |-> pathname]

MatchesV0(normalizedPath, prefix) == StartsWith(normalizedPath, prefix)

\* src/index.js:281-292: the first entry the path starts with
ExtractV0(pathname, prefixes) ==
    LET normalizedPath == NormalizedPath(pathname)
        hits == {i \in 1..Len(prefixes) : MatchesV0(normalizedPath, prefixes[i])}
    IN  IF hits # {}
        THEN [prefix |-> prefixes[Min(hits)],
              rest |-> Slice(normalizedPath, Len(prefixes[Min(hits)]))]
        ELSE [prefix |-> Empty, rest |-> Empty]

\* the router of one handler family
Extract(v, path, prefixes) ==
    CASE v = "V0" -> ExtractV0(path, prefixes)
      [] v = "C" -> ExtractC(path, prefixes)
      [] OTHER -> ExtractA(path, prefixes)


(***************************************************************************)
(* Requests, upstream calls and responses.                                 *)
(***************************************************************************)
\* searchParams.get of an absent parameter, headers.get of an absent header
Null == <<"<null>">>

\* `${x}` of a value that may be null
Str(x) == IF x = Null THEN <<"null">> ELSE x

\* the action word of a scope, cut so that its last character is an atom
Pull == <<"pul", "l">>

Quote == "\""

V2Prefix == <<"/", "v2", "/">>

\* key.toLowerCase() of a header name
Lower(name) ==
    CASE name = "Authorization" -> "authorization"
      [] name = "Content-Type" -> "content-type"
      [] name = "Anthropic-Version" -> "anthropic-version"
      [] name = "X-Random" -> "x-random"
      [] name = "Cookie" -> "cookie"
      [] OTHER -> name

\* request.headers.entries(): the Headers object holds lower-case names
Entries(headers) == {[name |-> Lower(h.name), value |-> h.value] : h \in headers}

Has(headers, name) == \E h \in Entries(headers) : h.name = name

\* headers.get(name): Null when absent
Get(headers, name) ==
    IF Has(headers, name)
    THEN <<(CHOOSE h \in Entries(headers) : h.name = name).value>>
    ELSE Null

NoHeaders == {}

\* a response: status, body and the headers the handlers read or write
\* ("" and Empty stand for an absent header)
Response(status, body, ct) ==
    [kind |-> "response", status |-> status, body |-> body, ct |-> ct,
     wwwAuth |-> Empty, location |-> Empty,
     xcto |-> "", xfo |-> "", rp |-> ""]

\* no response yet
NoResp == [Response(0, "", "") EXCEPT !.kind = "none"]

\* the handler's promise rejected: the worker produced no Response
Rejected == [Response(0, "", "") EXCEPT !.kind = "rejected"]

\* an upstream fetch: the URL, the init's method, headers and redirect mode
Call(url, method, headers, redirect) ==
    [url |-> url, method |-> method, headers |-> headers, redirect |-> redirect]

NoCtx ==
    [isDockerHub |-> FALSE, imagePath |-> Empty, scope |-> Null,
     authorization |-> Null]

(***************************************************************************)
(* Security Header Injector (part_000:244-248, part_001:253-257,           *)
(* part_001:605-609, inlined in src/index.js).                             *)
(***************************************************************************)
addSecurityHeaders(headers) ==
    [headers EXCEPT !.xcto = "nosniff", !.xfo = "DENY", !.rp = "no-referrer"]

\* new Response(response.body, {status, statusText, headers: responseHeaders})
PassThrough(response) == addSecurityHeaders(response)

(***************************************************************************)
(* Header Filter.                                                          *)
(***************************************************************************)
\* a filter that lets every inbound header through
FilterHeaders_CopyAll(headers, allowedHeaders) == Entries(headers)

\* part_000:187-194, part_001:196-203, part_001:547-554
FilterHeaders(headers, allowedHeaders) ==
    {h \in Entries(headers) : h.name \in (DEFAULT_HEADERS \cup allowedHeaders)}

\* src/index.js:172-179 and 241-252
FilterHeadersV0(headers, allowedHeaders) ==
    {h \in Entries(headers) : h.name \in ForwardedHeadersV0}
    \cup {h \in Entries(headers) : h.name \in allowedHeaders}

\* `${baseUrl}${restPath.startsWith('/') ? restPath : `/${restPath}`}${search}`
GenericTargetUrl(baseUrl, restPath, search) ==
    <<baseUrl>>
    \o (IF StartsWith(restPath, <<"/">>) THEN restPath ELSE <<"/">> \o restPath)
    \o search


(***************************************************************************)
(* Namespace normalization for the default registry.                       *)
(***************************************************************************)
\* `if (x)` on a string or null
Truthy(x) == x # Null /\ x # Empty

\* x.split('/manifests/')[0].split('/blobs/')[0]
RepoNameOf(imagePath) ==
    SplitHead(SplitHead(imagePath, <<"/", "manifests", "/">>),
              <<"/", "blobs", "/">>)

\* part_000:99: a single-segment name that is no digest
IsOfficialName(repoName) ==
    repoName # Empty /\ ~Includes(repoName, <<"/">>) /\ ~Includes(repoName, <<":">>)

\* part_000:96-102: the rewrite in place
NormalizeA(finalImagePath) ==
    IF IsOfficialName(RepoNameOf(finalImagePath))
    THEN <<"library", "/">> \o finalImagePath
    ELSE finalImagePath

\* a redirect condition that does not exempt the library namespace
NeedsRedirectB_AnyName(finalImagePath) ==
    LET pathParts == Split(finalImagePath, "/")
    IN  /\ Len(pathParts) >= 2
        /\ ~Includes(pathParts[1], <<".">>)
        /\ ~Includes(pathParts[1], <<":">>)

\* part_001:102-105: the condition of the 301 redirect
NeedsRedirectB(finalImagePath) ==
    LET pathParts == Split(finalImagePath, "/")
    IN  /\ Len(pathParts) >= 2
        /\ ~Includes(pathParts[1], <<".">>)
        /\ ~Includes(pathParts[1], <<":">>)
        /\ pathParts[1] # <<"library">>

\* part_001:108-110: 'library' inserted after '/v2/'
RedirectPathB(pathname) == Join(Splice(Split(pathname, "/"), 2, <<"library">>), "/")

\* Response.redirect(redirectUrl, 301)
RedirectResponseB(hostname, pathname, search) ==
    [Response(301, "", "") EXCEPT
        !.location = <<"https://", hostname>> \o RedirectPathB(pathname) \o search]

\* finalImagePath.startsWith('/') ? finalImagePath.slice(1) : finalImagePath
Cleaned(imagePath) ==
    IF StartsWith(imagePath, <<"/">>) THEN Slice(imagePath, 1) ELSE imagePath

(***************************************************************************)
(* The 401 challenge.                                                      *)
(***************************************************************************)
\* part.trim()
RECURSIVE Trim(_)
Trim(s) ==
    IF s # Empty /\ Head(s) = " " THEN Trim(Tail(s))
    ELSE IF s # Empty /\ s[Len(s)] = " " THEN Trim(SubSeq(s, 1, Len(s) - 1))
    ELSE s

\* part.substring(key.length, part.length - 1): the key atom and the last
\* character (an atom of its own in every header of the model) dropped
ValueOfPart(part) == SubSeq(part, 2, Len(part) - 1)

\* part_000:282-294: the loop over authHeader.split(',')
RECURSIVE ParsePartsA(_, _, _)
ParsePartsA(parts, i, acc) ==
    IF i > Len(parts) THEN acc
    ELSE LET trimmedPart == Trim(parts[i])
         IN  ParsePartsA(parts, i + 1,
                IF StartsWith(trimmedPart, <<"realm=\"">>) THEN acc
                ELSE IF StartsWith(trimmedPart, <<"service=\"">>)
                     THEN [acc EXCEPT !.service = ValueOfPart(trimmedPart)]
                ELSE IF StartsWith(trimmedPart, <<"scope=\"">>)
                     THEN [acc EXCEPT !.scope = ValueOfPart(trimmedPart)]
                ELSE [acc EXCEPT !.otherParams = Append(@, trimmedPart)])

GenericScope == <<"repository", ":", "*", ":">> \o Pull

\* part_000:297-307: the scope inferred from the requested image path
InferredScopeA(parsed, authHeader, requestedImagePath) ==
    IF (~Truthy(authHeader) \/ ~Includes(authHeader, <<"scope=\"">>)
            \/ parsed.scope = GenericScope)
       /\ Truthy(requestedImagePath)
    THEN LET repoName == RepoNameOf(requestedImagePath)
             named == IF parsed.service = <<"registry.docker.io">>
                         /\ IsOfficialName(repoName)
                      THEN <<"library", "/">> \o repoName ELSE repoName
         IN  IF named # Empty
             THEN <<"repository", ":">> \o named \o <<":">> \o Pull
             ELSE parsed.scope
    ELSE parsed.scope

Challenge(realm, service) ==
    <<"Bearer ", "realm=\"">> \o realm \o <<Quote, ",", "service=\"">> \o service
    \o <<Quote>>

GatewayRealm(hostname, endpoint) == <<"https://", hostname, endpoint>>

\* part_000:270-319
responseUnauthorizedA(hostname, authHeader, requestedImagePath) ==
    LET init == [service |-> <<"registry.docker.io">>, scope |-> GenericScope,
                 otherParams |-> <<>>]
        parsed == IF Truthy(authHeader)
                  THEN ParsePartsA(Split(authHeader, ","), 1, init) ELSE init
        scope == InferredScopeA(parsed, authHeader, requestedImagePath)
        newAuthHeader ==
            Challenge(GatewayRealm(hostname, "/v2/token"), parsed.service)
            \o <<",", "scope=\"">> \o scope \o <<Quote>>
            \o (IF Len(parsed.otherParams) > 0
                THEN <<",">> \o Join(parsed.otherParams, ",") ELSE Empty)
    IN  [Response(401, "{\"error\":\"Unauthorized\"}", "application/json")
            EXCEPT !.wwwAuth = newAuthHeader]

\* part_001:264-274
responseUnauthorizedB(hostname) ==
    [Response(401, "{\"message\":\"UNAUTHORIZED\"}", "application/json")
        EXCEPT !.wwwAuth = Challenge(GatewayRealm(hostname, "/v2/auth"),
                                     <<"cloudflare-docker-proxy">>)]

\* the first match of /key="([^"]+)"/ in the header: its group, or Null
RegexGroup(authHeader, key) ==
    LET starts == {i \in 1..Len(authHeader) :
                     /\ authHeader[i] = key
                     /\ i + 1 <= Len(authHeader)
                     /\ authHeader[i + 1] # Quote
                     /\ \E j \in (i + 2)..Len(authHeader) : authHeader[j] = Quote}
    IN  IF starts = {} THEN Null
        ELSE LET i == Min(starts)
                 j == Min({k \in (i + 2)..Len(authHeader) : authHeader[k] = Quote})
             IN  SubSeq(authHeader, i + 1, j - 1)

\* part_001:617-651
responseUnauthorizedC(hostname, authHeader) ==
    LET realmMatch == IF Truthy(authHeader)
                      THEN RegexGroup(authHeader, "realm=\"") ELSE Null
        serviceMatch == IF Truthy(authHeader)
                        THEN RegexGroup(authHeader, "service=\"") ELSE Null
        service == IF realmMatch # Null /\ serviceMatch # Null
                   THEN serviceMatch ELSE <<"registry.docker.io">>
    IN  [Response(401, "{\"error\":\"Unauthorized\"}", "application/json")
            EXCEPT !.wwwAuth = Challenge(GatewayRealm(hostname, "/v2/token"), service)]

\* the atoms that end in ="
KeyAtoms == {"realm=\"", "service=\"", "scope=\"", "error=\""}

\* part_001:284-285: authenticateStr.match(re), the strings after =" and
\* before the next "
RECURSIVE RegexMatchesB(_, _)
RegexMatchesB(authenticateStr, i) ==
    IF i > Len(authenticateStr) THEN <<>>
    ELSE IF authenticateStr[i] \in KeyAtoms
            /\ \E j \in (i + 1)..Len(authenticateStr) : authenticateStr[j] = Quote
    THEN LET j == Min({k \in (i + 1)..Len(authenticateStr) :
                         authenticateStr[k] = Quote})
         IN  <<SubSeq(authenticateStr, i + 1, j - 1)>>
             \o RegexMatchesB(authenticateStr, j)
    ELSE RegexMatchesB(authenticateStr, i + 1)

\* part_001:281-293: ok is FALSE where the function throws
parseAuthenticate(authenticateStr) ==
    LET matches == RegexMatchesB(authenticateStr, 1)
    IN  IF Len(matches) < 2
        THEN [ok |-> FALSE, realm |-> Empty, service |-> Empty]
        ELSE [ok |-> TRUE, realm |-> matches[1], service |-> matches[2]]


(***************************************************************************)
(* Auth Relay.                                                             *)
(***************************************************************************)
EncodeAtom(a) ==
    CASE a = ":" -> "%3A"
      [] a = "/" -> "%2F"
      [] a = "," -> "%2C"
      [] OTHER -> a

\* encodeURIComponent(s)
EncodeURIComponent(s) == [i \in 1..Len(s) |-> EncodeAtom(s[i])]

\* the application/x-www-form-urlencoded serializer of url.searchParams
FormEncode(s) == [i \in 1..Len(s) |-> EncodeAtom(s[i])]

AuthDockerIo == <<"https://", "auth.docker.io", "/token">>

\* part_000:331-333
TokenUrlA(service, scope) ==
    AuthDockerIo \o <<"?", "service=">> \o EncodeURIComponent(Str(service))
    \o <<"&", "scope=">> \o EncodeURIComponent(Str(scope))

\* part_001:661
TokenUrlC(service, scope) ==
    AuthDockerIo \o <<"?", "service=">> \o Str(service)
    \o <<"&", "scope=">> \o Str(scope)

\* part_001:330-332
ResolveServiceB(service) ==
    IF service = <<"cloudflare-docker-proxy">> THEN <<"registry.docker.io">>
    ELSE service

\* part_001:336-342
RewriteScopeB(service, scope) ==
    IF Truthy(scope) /\ ResolveServiceB(service) = <<"registry.docker.io">>
    THEN LET scopeParts == Split(scope, ":")
         IN  IF Len(scopeParts) = 3 /\ ~Includes(scopeParts[2], <<"/">>)
             THEN Join([scopeParts EXCEPT ![2] = <<"library", "/">> \o @], ":")
             ELSE scope
    ELSE scope

\* new URL(realm) succeeds
IsUrl(s) == Len(s) >= 2 /\ s[1] = "https://"

\* part_001:303-309: the realm with service and scope set as query parameters
TokenUrlB(wwwAuthenticate, scope) ==
    LET withService == Len(wwwAuthenticate.service) > 0
    IN  wwwAuthenticate.realm
        \o (IF withService
            THEN <<"?", "service=">> \o FormEncode(wwwAuthenticate.service)
            ELSE Empty)
        \o (IF Truthy(scope)
            THEN <<IF withService THEN "&" ELSE "?", "scope=">> \o FormEncode(scope)
            ELSE Empty)

\* a token request that never carries credentials
TokenHeadersB_Anonymous(authorization) == NoHeaders

\* part_001:310-314
TokenHeadersB(authorization) ==
    IF Truthy(authorization) /\ authorization # <<"">>
    THEN {[name |-> "Authorization", value |-> authorization[1]]}
    ELSE NoHeaders

\* part_000:338-340
TokenHeadersA(headers) == {h \in Entries(headers) : h.name # "host"}

\* part_001:666-669
TokenHeadersC(headers) ==
    IF Has(headers, "authorization")
    THEN {[name |-> "authorization", value |-> Get(headers, "authorization")[1]]}
    ELSE NoHeaders

(***************************************************************************)
(* The handlers up to their first upstream call.  A step is the handler's  *)
(* next position, the upstream call it issues (none when it answers), its  *)
(* answer and the locals it keeps across the await.                        *)
(***************************************************************************)
Answer(response) ==
    [pc |-> "done", call |-> <<>>, resp |-> response, ctx |-> NoCtx]

Await(stage, call, locals) ==
    [pc |-> stage, call |-> <<call>>, resp |-> NoResp, ctx |-> locals]

ServiceRunning == Response(200, "Service is running!", "text/html; charset=utf-8")

RobotsTxt == Response(200, "User-agent: *\nDisallow: /", "text/plain; charset=utf-8")

NotFoundJson == Response(404, "{\"error\":\"Not Found\"}", "application/json")

\* src/index.js:167: a string body with no headers given
NotFoundText == Response(404, "Not Found", "text/plain;charset=UTF-8")

InternalServerError == Response(500, "Internal Server Error", "text/plain;charset=UTF-8")

PingUrl == <<DOCKER_HUB_URL, "/", "v2", "/">>

\* part_000:134-149 and part_001:146-159
RegistryTargetUrl(baseUrl, imagePath, search) ==
    <<baseUrl, "/", "v2", "/">> \o imagePath \o search

\* part_000:186-203, part_001:195-212
GenericStart(r, config, restPath) ==
    Await("generic",
          Call(GenericTargetUrl(config.baseUrl, restPath, r.search), r.method,
               FilterHeaders(r.headers, config.allowedHeaders), "follow"),
          NoCtx)

\* part_000:110-118, part_001:122-130
AiStart(r) ==
    LET m == ExtractA(r.pathname, Keys(aiConfigs))
    IN  IF m.prefix # Empty
        THEN GenericStart(r, Lookup(aiConfigs, m.prefix), m.rest)
        ELSE Answer(NotFoundJson)

PingStart(r) == Await("ping", Call(PingUrl, r.method, Entries(r.headers), "manual"), NoCtx)

\* part_000:80-107 with handleRegistryRequest up to its fetch (134-149)
RegistryStartA(r, v2Path) ==
    LET m == ExtractA(v2Path, Keys(registryConfigs))
        targetBaseUrl == IF m.prefix # Empty
                         THEN Lookup(registryConfigs, m.prefix).baseUrl
                         ELSE DOCKER_HUB_URL
        imagePath == IF m.prefix # Empty THEN m.rest ELSE v2Path
        finalImagePath == IF targetBaseUrl = DOCKER_HUB_URL
                          THEN NormalizeA(imagePath) ELSE imagePath
        cleanedImagePath == Cleaned(Cleaned(finalImagePath))
    IN  Await("forward",
              Call(RegistryTargetUrl(targetBaseUrl, cleanedImagePath, r.search),
                   r.method, Entries(r.headers), "manual"),
              [NoCtx EXCEPT !.isDockerHub = (targetBaseUrl = DOCKER_HUB_URL),
                            !.imagePath = cleanedImagePath])

\* part_000:49-124
handleApiRequestA(r) ==
    IF r.pathname = <<"/">> \/ r.pathname = <<"/", "index.html">>
    THEN Answer(ServiceRunning)
    ELSE IF r.pathname = <<"/", "robots.txt">> THEN Answer(RobotsTxt)
    ELSE IF StartsWith(r.pathname, V2Prefix)
    THEN LET v2Path == Slice(r.pathname, Len(V2Prefix))
         IN  IF v2Path = Empty \/ v2Path = <<"/">> THEN PingStart(r)
             ELSE RegistryStartA(r, v2Path)
    ELSE AiStart(r)

\* part_000:322-342
handleTokenRequestA(r) ==
    Await("token",
          Call(TokenUrlA(r.service, r.scope), "GET", TokenHeadersA(r.headers),
               "follow"),
          NoCtx)

\* part_000:352-364
StartA(r) ==
    IF r.pathname = <<"/", "v2", "/", "token">> THEN handleTokenRequestA(r)
    ELSE handleApiRequestA(r)


\* part_001:78-119 with handleRegistryRequest up to its fetch (146-159)
RegistryStartB(r, v2Path) ==
    LET m == ExtractA(v2Path, Keys(registryConfigs))
        targetBaseUrl == IF m.prefix # Empty
                         THEN Lookup(registryConfigs, m.prefix).baseUrl
                         ELSE DOCKER_HUB_URL
        finalImagePath == IF m.prefix # Empty THEN m.rest ELSE v2Path
        isDockerHub == (targetBaseUrl = DOCKER_HUB_URL)
        cleanedFinalImagePath == Cleaned(finalImagePath)
    IN  IF isDockerHub /\ NeedsRedirectB(finalImagePath)
        THEN Answer(RedirectResponseB(r.host, r.pathname, r.search))
        ELSE Await("forward",
                   Call(RegistryTargetUrl(targetBaseUrl, cleanedFinalImagePath,
                                          r.search),
                        r.method, Entries(r.headers), "manual"),
                   [NoCtx EXCEPT !.isDockerHub = isDockerHub,
                                 !.imagePath = cleanedFinalImagePath])

\* part_001:49-136
handleApiRequestB(r) ==
    IF r.pathname = <<"/">> \/ r.pathname = <<"/", "index.html">>
    THEN Answer(ServiceRunning)
    ELSE IF r.pathname = <<"/", "robots.txt">> THEN Answer(RobotsTxt)
    ELSE IF StartsWith(r.pathname, V2Prefix)
    THEN LET v2Path == Slice(r.pathname, Len(V2Prefix))
         IN  IF v2Path = Empty \/ v2Path = <<"/">> THEN PingStart(r)
             ELSE RegistryStartB(r, v2Path)
    ELSE AiStart(r)

\* part_001:322-347: up to the probe of the upstream ping endpoint
handleAuthRequestB(r) ==
    Await("probe", Call(PingUrl, "GET", NoHeaders, "manual"),
          [NoCtx EXCEPT !.scope = RewriteScopeB(r.service, r.scope),
                        !.authorization = Get(r.headers, "authorization")])

\* part_001:365-377
StartB(r) ==
    IF r.pathname = <<"/", "v2", "/", "auth">> THEN handleAuthRequestB(r)
    ELSE handleApiRequestB(r)

\* part_001:459-505
handleRegistryRequestC(r) ==
    LET v2Path == Slice(r.pathname, Len(V2Prefix))
        m == ExtractC(v2Path, Keys(apiConfigs))
        known == m.prefix # Empty /\ StartsWith(m.prefix, <<"/", "registry", "/">>)
        config == Lookup(apiConfigs, m.prefix)
        targetUrl ==
            IF known
            THEN <<config.baseUrl, "/", "v2">>
                 \o (IF StartsWith(m.rest, <<"/">>) THEN m.rest ELSE <<"/">> \o m.rest)
                 \o r.search
            ELSE <<DOCKER_HUB_URL, "/", "v2", "/">> \o v2Path \o r.search
        isDockerHub == IF known THEN config.baseUrl = DOCKER_HUB_URL ELSE TRUE
    IN  IF v2Path = Empty \/ v2Path = <<"/">> THEN PingStart(r)
        ELSE Await("forward",
                   Call(targetUrl, r.method, Entries(r.headers), "manual"),
                   [NoCtx EXCEPT !.isDockerHub = isDockerHub])

\* part_001:539-563
handleGenericApiRequestC(r) ==
    LET m == ExtractC(r.pathname, Keys(apiConfigs))
    IN  IF m.prefix = Empty THEN Answer(NotFoundJson)
        ELSE GenericStart(r, Lookup(apiConfigs, m.prefix), m.rest)

\* part_001:654-671
handleTokenRequestC(r) ==
    Await("token",
          Call(TokenUrlC(r.service, r.scope), "GET", TokenHeadersC(r.headers),
               "follow"),
          NoCtx)

\* part_001:423-450 behind the router of part_001:677-684, whose
\* originalHandler is read as the handler of 423-450
StartC(r) ==
    IF r.pathname = <<"/", "v2", "/", "token">> THEN handleTokenRequestC(r)
    ELSE IF r.pathname = <<"/">> \/ r.pathname = <<"/", "index.html">>
    THEN Answer(ServiceRunning)
    ELSE IF r.pathname = <<"/", "robots.txt">> THEN Answer(RobotsTxt)
    ELSE IF StartsWith(r.pathname, V2Prefix) THEN handleRegistryRequestC(r)
    ELSE handleGenericApiRequestC(r)

\* src/index.js:136-261: up to the fetch
StartV0(r) ==
    LET m == ExtractV0(r.pathname, Keys(apiMapping))
        config == Lookup(apiMapping, m.prefix)
        targetUrl == GenericTargetUrl(config.baseUrl, m.rest, r.search)
        defaults == {h \in Entries(r.headers) : h.name \in ForwardedHeadersV0}
        registryType == Split(m.prefix, "/")[3]
        dockerHubUrl ==
            GenericTargetUrl("https://registry-1.docker.io", m.rest, r.search)
    IN  IF r.pathname = <<"/">> \/ r.pathname = <<"/", "index.html">>
        THEN Answer(ServiceRunning)
        ELSE IF r.pathname = <<"/", "robots.txt">> THEN Answer(RobotsTxt)
        ELSE IF m.prefix = Empty THEN Answer(NotFoundText)
        ELSE IF StartsWith(m.prefix, <<"/", "registry", "/">>)
        THEN Await("generic",
                   Call(IF registryType = <<"docker", "/", "hub">>
                        THEN dockerHubUrl ELSE targetUrl,
                        r.method, defaults, "follow"),
                   NoCtx)
        ELSE Await("generic",
                   Call(targetUrl, r.method,
                        FilterHeadersV0(r.headers, config.allowedHeaders), "follow"),
                   NoCtx)

Start(v, r) ==
    CASE v = "V0" -> StartV0(r)
      [] v = "A" -> StartA(r)
      [] v = "B" -> StartB(r)
      [] OTHER -> StartC(r)

(***************************************************************************)
(* The handlers after an upstream call returned u: a response of the       *)
(* upstream, or the fetch's rejection (u.kind = "error").                  *)
(***************************************************************************)
\* the promise a handler returns rejects: no Response is produced
Throw == Answer(Rejected)

\* a ping handler that infers the scope of its challenge from a repository
AfterPing_InferScope(v, r, u) ==
    IF u.kind = "error" THEN Answer(InternalServerError)
    ELSE IF u.status = 401
    THEN Answer(responseUnauthorizedA(r.host, u.wwwAuth,
                                      <<"busybox", "/", "manifests", "/", "latest">>))
    ELSE Answer(u)

\* part_000:71-76 inside the try of 50-123; part_001:71-75 inside 50-135;
\* part_001:468-472, whose rejection no try block awaits
AfterPing(v, r, u) ==
    IF u.kind = "error"
    THEN (IF v = "C" THEN Throw ELSE Answer(InternalServerError))
    ELSE IF u.status = 401
    THEN (CASE v = "A" -> Answer(responseUnauthorizedA(r.host, u.wwwAuth, Null))
            [] v = "B" -> Answer(responseUnauthorizedB(r.host))
            [] OTHER -> Answer(responseUnauthorizedC(r.host, Null)))
    ELSE Answer(u)

\* a blob fetch that passes the client's request headers on
BlobCall_ClientHeaders(location) ==
    Call(location, "GET", Entries(req.headers), "follow")

\* part_000:163, part_001:172, part_001:518: no headers option
BlobCall(location) == Call(location, "GET", NoHeaders, "follow")

\* a forward that hands every redirect of the upstream to the client
AfterForward_RelayRedirect(v, r, locals, u) ==
    IF u.kind = "error" THEN Throw ELSE Answer(PassThrough(u))

\* a forward that tries the upstream a second time when the fetch fails
AfterForward_Retry(v, r, locals, u) ==
    IF u.kind = "error" /\ Len(calls) = 1
    THEN Await("forward",
               Call(calls[1].url, calls[1].method, calls[1].headers,
                    calls[1].redirect),
               locals)
    ELSE IF u.kind = "error" THEN Throw
    ELSE Answer(PassThrough(u))

\* part_000:149-175, part_001:159-184, part_001:505-530; the caller returns
\* the handler's promise without awaiting it, so no catch block sees a
\* rejection
AfterForward(v, r, locals, u) ==
    IF u.kind = "error" THEN Throw
    ELSE IF u.status = 401
    THEN (CASE v = "A" ->
                 Answer(responseUnauthorizedA(r.host, u.wwwAuth, locals.imagePath))
            [] v = "B" -> Answer(responseUnauthorizedB(r.host))
            [] OTHER -> Answer(responseUnauthorizedC(r.host, u.wwwAuth)))
    ELSE IF locals.isDockerHub /\ (u.status = 307 \/ u.status = 302)
    THEN (IF v = "B"
          THEN (IF IsUrl(u.location)
                THEN Await("blob", BlobCall(u.location), locals)
                ELSE Throw)
          ELSE IF Truthy(u.location)
               THEN Await("blob", BlobCall(u.location), locals)
               ELSE Answer(PassThrough(u)))
    ELSE Answer(PassThrough(u))

\* part_000:163, part_001:172, part_001:518
AfterBlob(u) == IF u.kind = "error" THEN Throw ELSE Answer(u)

\* part_000:199-211, part_001:208-220, part_001:559-571, src/index.js:198-278
\* (whose catch block reads targetUrl outside its scope and throws)
AfterGeneric(u) == IF u.kind = "error" THEN Throw ELSE Answer(PassThrough(u))

\* a relay that asks the hardcoded realm for the token whatever the probe says
AfterProbe_TokenAnyway(locals, u) ==
    Await("token",
          Call(<<"https://", "auth.docker.io", "/token">>, "GET", NoHeaders, "follow"),
          locals)

AuthDiscoveryFailure ==
    Response(500, "{\"error\":\"Failed to get upstream authentication challenge\"}",
             "text/plain;charset=UTF-8")

\* part_001:347-357 with fetchToken (302-315)
AfterProbe(locals, u) ==
    LET wwwAuthenticate == parseAuthenticate(u.wwwAuth)
    IN  IF u.kind = "error" THEN Throw
        ELSE IF ~Truthy(u.wwwAuth) THEN Answer(AuthDiscoveryFailure)
        ELSE IF ~wwwAuthenticate.ok \/ ~IsUrl(wwwAuthenticate.realm) THEN Throw
        ELSE Await("token",
                   Call(TokenUrlB(wwwAuthenticate, locals.scope), "GET",
                        TokenHeadersB(locals.authorization), "follow"),
                   locals)

\* part_000:342-344, part_001:314, part_001:671-673
AfterToken(u) == IF u.kind = "error" THEN Throw ELSE Answer(u)


(***************************************************************************)
(* The environment: client requests and upstream replies.                  *)
(***************************************************************************)
Variants == {"V0", "A", "B", "C"}

Hosts == {"gw.example", "mirror.example"}

Tails == SeqsUpTo({"/", "x"}, MaxTail)

Query == <<"?", "n=1">>

HeaderPool ==
    {[name |-> "Content-Type", value |-> "application/json"],
     [name |-> "Authorization", value |-> "Basic Zm9v"],
     [name |-> "Anthropic-Version", value |-> "2023-06-01"],
     [name |-> "X-Random", value |-> "r"]}

\* an Authorization header whose value is the empty string
EmptyAuthorization == {[name |-> "Authorization", value |-> ""]}

Digest == <<"sha256", ":", "abc">>

ImagePaths ==
    {<<"busybox", "/", "manifests", "/", "latest">>,
     <<"library", "/", "busybox", "/", "manifests", "/", "latest">>,
     <<"user", "/", "image", "/", "manifests", "/", "latest">>,
     <<"busybox", "/", "blobs", "/">> \o Digest,
     <<"user", "/", "image", "/", "blobs", "/">> \o Digest,
     <<"busybox", "/", "tags", "/", "list">>,
     <<"busybox", ":", "latest">>,
     <<"ghcr", ".", "io", "/", "user", "/", "manifests", "/", "latest">>}

HubHead == <<"register", "/", "docker", "/", "hub">>

GithubHead == <<"register", "/", "github">>

RegistryHeads ==
    {Empty, HubHead \o <<"/">>, GithubHead \o <<"/">>,
     <<"registry", "/", "docker", "/", "hub", "/">>,
     <<"registry", "/", "github", "/">>}

RegistryPaths ==
    {V2Prefix \o h \o i : h \in RegistryHeads, i \in ImagePaths}
    \cup {V2Prefix \o h \o t : h \in {Empty, HubHead, GithubHead}, t \in Tails}

GenericHeads ==
    {<<"/", "ai", "/", "openai">>, <<"/", "ai", "/", "claude">>,
     <<"/", "registry", "/", "github">>, <<"/", "foo">>}

GenericPaths ==
    {h \o t : h \in GenericHeads, t \in Tails}
    \cup {<<"/", "ai", "/", "claude", "/", "v1", "/", "messages">>,
          <<"/", "foo", "/", "bar">>, <<"/", "v2">>, <<"/", "ai">>}

StaticPaths == {<<"/">>, <<"/", "index.html">>, <<"/", "robots.txt">>}

TokenPaths == {<<"/", "v2", "/", "token">>, <<"/", "v2", "/", "auth">>}

Services ==
    {Null, <<"cloudflare-docker-proxy">>, <<"registry.docker.io">>, <<"ghcr.io">>}

Scopes ==
    {Null,
     <<"repository", ":", "busybox", ":">> \o Pull,
     <<"repository", ":", "library", "/", "busybox", ":">> \o Pull,
     <<"repository", ":", "user", "/", "image", ":">> \o Pull \o <<",", "push">>,
     <<"busybox">>}

Request(host, method, pathname, search, service, scope, headers) ==
    [host |-> host, method |-> method, pathname |-> pathname, search |-> search,
     service |-> service, scope |-> scope, headers |-> headers, hop |-> 0,
     origin |-> "", originRealm |-> Null]

Requests ==
    {Request(h, m, p, q, Null, Null, hs) :
        h \in Hosts, m \in {"GET", "HEAD"}, p \in RegistryPaths,
        q \in {Empty, Query}, hs \in {NoHeaders, HeaderPool}}
    \cup {Request("gw.example", "POST", p, Query, Null, Null, hs) :
            p \in GenericPaths, hs \in SUBSET HeaderPool}
    \cup {Request("gw.example", "GET", p, Empty, Null, Null, NoHeaders) :
            p \in StaticPaths}
    \cup {Request("gw.example", "GET", p, Empty, sv, sc, hs) :
            p \in TokenPaths, sv \in Services, sc \in Scopes,
            hs \in {NoHeaders, {h \in HeaderPool : h.name = "Authorization"},
                    EmptyAuthorization}}

NoReq == Request("", "", Empty, Empty, Null, Null, NoHeaders)

HubRealm == <<"https://", "auth.docker.io", "/token">>

GhcrRealm == <<"https://", "ghcr.io", "/token">>

HubChallenge == Challenge(HubRealm, <<"registry.docker.io">>)

ScopeParam(scope) == <<",", "scope=\"">> \o scope \o <<Quote>>

\* the WWW-Authenticate values an upstream answers with (Empty: none)
UpChallenges ==
    {Empty,
     HubChallenge,
     HubChallenge
        \o ScopeParam(<<"repository", ":", "library", "/", "busybox", ":">> \o Pull),
     HubChallenge
        \o ScopeParam(<<"repository", ":", "user", "/", "image", ":">> \o Pull
                      \o <<",", "push">>),
     Challenge(GhcrRealm, <<"ghcr.io">>),
     Challenge(GhcrRealm, <<"ghcr.io">>)
        \o ScopeParam(<<"repository", ":", "user", "/", "image", ":">> \o Pull),
     <<"Bearer ", "realm=\"">> \o HubRealm \o <<Quote, ",", " ", "service=\"",
        "registry.docker.io", Quote>>,
     <<"Bearer ", "service=\"", "registry.docker.io", Quote>>,
     <<"Bearer ", "realm=\"">> \o HubRealm \o <<Quote>>}

Upstream(status, body) == Response(status, body, "application/octet-stream")

BlobUrl == <<"https://", "blobs.example", "/signed">>

NetError == [Response(0, "", "") EXCEPT !.kind = "error"]

UpReplies ==
    {NetError,
     Upstream(200, "upstream-200"),
     [Upstream(200, "upstream-200") EXCEPT !.xfo = "SAMEORIGIN", !.rp = "origin"],
     Upstream(404, "upstream-404")}
    \cup {[Upstream(401, "upstream-401") EXCEPT !.wwwAuth = c] : c \in UpChallenges}
    \cup {[Upstream(st, "") EXCEPT !.location = l] :
            st \in {307, 302}, l \in {Empty, BlobUrl}}
    \cup {[Upstream(307, "") EXCEPT !.location = <<"/", "blob">>]}

\* what a fetch of the call can produce: a relative URL is no URL to fetch,
\* and a followed redirect never comes back as the result
RepliesTo(call) ==
    IF call.url = Empty \/ call.url[1] = "/" THEN {NetError}
    ELSE IF call.redirect = "follow"
    THEN {u \in UpReplies : ~(u.status \in {301, 302, 307} /\ u.location # Empty)}
    ELSE UpReplies

(***************************************************************************)
(* The gateway as a state machine: one client request at a time.           *)
(***************************************************************************)
RtOff == [phase |-> "off", table |-> <<>>, path |-> Empty,
          result |-> [prefix |-> Empty, rest |-> Empty]]

Init ==
    /\ variant \in Variants
    /\ pc = "idle"
    /\ req = NoReq
    /\ ctx = NoCtx
    /\ calls = <<>>
    /\ replies = <<>>
    /\ resp = NoResp
    /\ rt = RtOff

\* the handler moves on by one step; the call it issues is tagged with the
\* position it is awaited at
TakeAfter(earlier, step) ==
    /\ pc' = step.pc
    /\ ctx' = step.ctx
    /\ resp' = step.resp
    /\ calls' = earlier \o [i \in 1..Len(step.call) |->
                            [stage |-> step.pc, url |-> step.call[i].url,
                             method |-> step.call[i].method,
                             headers |-> step.call[i].headers,
                             redirect |-> step.call[i].redirect]]

Take(step) == TakeAfter(calls, step)

Receive ==
    /\ pc = "idle"
    /\ \E r \in Requests :
        /\ req' = r
        /\ Take(Start(variant, r))
    /\ UNCHANGED <<variant, replies, rt>>

Returned(stage, u) ==
    /\ pc = stage
    /\ u \in RepliesTo(calls[Len(calls)])
    /\ replies' = Append(replies, u)
    /\ UNCHANGED <<variant, req, rt>>

PingReply == \E u \in UpReplies : Returned("ping", u) /\ Take(AfterPing(variant, req, u))

ForwardReply ==
    \E u \in UpReplies :
        Returned("forward", u) /\ Take(AfterForward(variant, req, ctx, u))

BlobReply == \E u \in UpReplies : Returned("blob", u) /\ Take(AfterBlob(u))

GenericReply == \E u \in UpReplies : Returned("generic", u) /\ Take(AfterGeneric(u))

ProbeReply == \E u \in UpReplies : Returned("probe", u) /\ Take(AfterProbe(ctx, u))

TokenReply == \E u \in UpReplies : Returned("token", u) /\ Take(AfterToken(u))

\* the values of the realm parameters of a challenge
RealmsIn(header) ==
    {SubSeq(header, i + 1, Min({k \in (i + 1)..Len(header) : header[k] = Quote}) - 1) :
        i \in {n \in 1..Len(header) :
                 /\ header[n] = "realm=\""
                 /\ \E k \in (n + 1)..Len(header) : header[k] = Quote}}

\* the host of https://host/path
HostOf(url) == url[2]

\* the pathname of https://host/path?query
PathOfUrl(url) == SplitHead(Slice(url, 2), <<"?">>)

\* the request a client makes when it follows the Location of a 301
FollowedRequest(r, response) ==
    [r EXCEPT !.host = HostOf(response.location),
              !.pathname = PathOfUrl(response.location),
              !.hop = r.hop + 1]

\* the client follows a 301 that points back at the gateway: a new request
\* enters the handler
Follow ==
    /\ pc = "done"
    /\ resp.kind = "response"
    /\ resp.status = 301
    /\ Len(resp.location) >= 2
    /\ HostOf(resp.location) \in Hosts
    /\ req.hop < MaxHops
    /\ req' = FollowedRequest(req, resp)
    /\ Take(Start(variant, req'))
    /\ UNCHANGED <<variant, replies, rt>>

\* the pathname of a token endpoint
PathOfEndpoint(endpoint) ==
    CASE endpoint = "/v2/token" -> <<"/", "v2", "/", "token">>
      [] endpoint = "/v2/auth" -> <<"/", "v2", "/", "auth">>
      [] OTHER -> <<endpoint>>

\* the realm a WWW-Authenticate header names first: Null when it names none
FirstRealmOf(header) ==
    IF RealmsIn(header) = {} THEN Null
    ELSE LET at == Min({n \in 1..Len(header) : header[n] = "realm=\""})
             stop == Min({k \in (at + 1)..Len(header) : header[k] = Quote})
         IN  SubSeq(header, at + 1, stop - 1)

\* the value of the first parameter key="..." of a challenge: Null when the
\* challenge has none
ParamOf(header, key) ==
    LET at == {n \in 1..Len(header) :
                 /\ header[n] = key
                 /\ \E k \in (n + 1)..Len(header) : header[k] = Quote}
    IN  IF at = {} THEN Null
        ELSE SubSeq(header, Min(at) + 1,
                    Min({k \in (Min(at) + 1)..Len(header) : header[k] = Quote}) - 1)

\* the credentials a client presents to a token endpoint
Credentials == {NoHeaders, {h \in HeaderPool : h.name = "Authorization"}}

\* the token request of a client that was challenged: a GET of the realm of
\* the challenge with its service and scope as query parameters.  origin
\* and originRealm remember the upstream that issued the 401 and the realm
\* it named.
TokenRequest(response, call, reply, headers) ==
    LET realm == FirstRealmOf(response.wwwAuth)
    IN  [Request(HostOf(realm), "GET", PathOfEndpoint(realm[3]), Empty,
                 ParamOf(response.wwwAuth, "service=\""),
                 ParamOf(response.wwwAuth, "scope=\""), headers)
            EXCEPT !.origin = call.url[1],
                   !.originRealm = FirstRealmOf(reply.wwwAuth)]

\* the client answers the gateway's challenge: it asks the realm of the
\* challenge for a token, a new request of its own
Authenticate ==
    /\ pc = "done"
    /\ resp.kind = "response"
    /\ resp.status = 401
    /\ req.origin = ""
    /\ Len(replies) >= 1
    /\ replies[Len(replies)].kind = "response"
    /\ replies[Len(replies)].status = 401
    /\ FirstRealmOf(resp.wwwAuth) # Null
    /\ Len(FirstRealmOf(resp.wwwAuth)) = 3
    /\ HostOf(FirstRealmOf(resp.wwwAuth)) \in Hosts
    /\ \E headers \in Credentials :
        /\ req' = TokenRequest(resp, calls[Len(calls)], replies[Len(replies)],
                               headers)
        /\ TakeAfter(<<>>, Start(variant, req'))
    /\ replies' = <<>>
    /\ UNCHANGED <<variant, rt>>

Next ==
    \/ Receive
    \/ Follow
    \/ Authenticate
    \/ PingReply
    \/ ForwardReply
    \/ BlobReply
    \/ GenericReply
    \/ ProbeReply
    \/ TokenReply

Spec == Init /\ [][Next]_vars


(***************************************************************************)
(* The Prefix Router on its own: a route table and a path are drawn, and   *)
(* the router of the handler family resolves the path.                     *)
(***************************************************************************)
PrefixPool ==
    {<<"/", "a">>, <<"/", "a", "/", "b">>, <<"/", "a", "b">>, <<"a">>,
     <<"a", "/", "b">>}

\* the key lists a handler family routes with
ConfiguredTables(v) ==
    CASE v = "V0" -> {Keys(apiMapping)}
      [] v = "C" -> {Keys(apiConfigs)}
      [] OTHER -> {Keys(aiConfigs), Keys(registryConfigs)}

GeneratedTables ==
    {t \in SeqsUpTo(PrefixPool, MaxTable) :
        Len(t) >= 1 /\ \A i, j \in 1..Len(t) : i # j => t[i] # t[j]}

RouteTables == GeneratedTables \cup UNION {ConfiguredTables(v) : v \in Variants}

RouteInputs ==
    UNION {{[phase |-> "input", table |-> t, path |-> p \o tl,
             result |-> [prefix |-> Empty, rest |-> Empty]] :
               p \in PrefixPool \cup Range(t), tl \in Tails} : t \in RouteTables}

InitRouter ==
    /\ variant \in Variants
    /\ pc = "idle"
    /\ req = NoReq
    /\ ctx = NoCtx
    /\ calls = <<>>
    /\ replies = <<>>
    /\ resp = NoResp
    /\ rt \in RouteInputs

Route ==
    /\ rt.phase = "input"
    /\ rt' = [rt EXCEPT !.phase = "routed",
                        !.result = Extract(variant, rt.path, rt.table)]
    /\ UNCHANGED <<variant, pc, req, ctx, calls, replies, resp>>

NextRouter == Route

SpecRouter == InitRouter /\ [][NextRouter]_vars


(***************************************************************************)
(* Properties.                                                             *)
(***************************************************************************)
Done == pc = "done"

\* the handler answered with a Response of its own making or an upstream's
Answered == Done /\ resp.kind = "response"

\* the first upstream call was issued at `stage` and the upstream answered it
\* with a response of status st
FirstReplyIs(stage, st) ==
    /\ Len(replies) >= 1
    /\ calls[1].stage = stage
    /\ replies[1].kind = "response"
    /\ replies[1].status = st

\* C1: a 401 of the upstream on the ping or on a forwarded /v2/ request is
\* answered 401 with a Bearer challenge, and every realm the challenge
\* names is at the hostname of the inbound request, none at an upstream host.
C1_RealmIsGatewayHost ==
    (Done /\ StartsWith(req.pathname, V2Prefix)
        /\ (FirstReplyIs("ping", 401) \/ FirstReplyIs("forward", 401)))
    => /\ resp.kind = "response"
       /\ resp.status = 401
       /\ StartsWith(resp.wwwAuth, <<"Bearer ", "realm=\"">>)
       /\ \A realm \in RealmsIn(resp.wwwAuth) : HostOf(realm) = req.host

\* the forward of a request resolved to registry-1.docker.io was answered
\* 307 or 302
HubForwardRedirected ==
    /\ Len(replies) >= 1
    /\ calls[1].stage = "forward"
    /\ calls[1].url[1] = DOCKER_HUB_URL
    /\ replies[1].kind = "response"
    /\ replies[1].status \in {307, 302}

DirectGet(call, location) ==
    /\ call.url = location
    /\ call.method = "GET"
    /\ call.redirect = "follow"

\* C2 as stated: whenever the forward to the default registry returns 307 or
\* 302, a direct GET with redirects followed goes to the Location URL and
\* the client does not receive the 307/302.
C2_RedirectAlwaysChased ==
    (Done /\ HubForwardRedirected)
    => /\ Len(calls) = 2
       /\ DirectGet(calls[2], replies[1].location)
       /\ ~(resp.kind = "response" /\ resp.status \in {307, 302})

\* C2 amended: when the 307/302 of the default registry carries an absolute
\* Location URL, the next upstream call is a GET of that URL with redirects
\* followed, and once that fetch has returned a response the client receives
\* exactly it, never the forward's 307/302.
C2_RedirectWithLocationChased ==
    (HubForwardRedirected /\ IsUrl(replies[1].location))
    => /\ pc \in {"blob", "done"}
       /\ Len(calls) = 2
       /\ DirectGet(calls[2], replies[1].location)
       /\ (Done /\ replies[2].kind = "response")
            => (resp = replies[2] /\ resp # PassThrough(replies[1]))

\* C2 witness: a 307 of the default registry naming the signed blob URL was
\* chased and the client holds the blob's 200
C2_Witness ==
    /\ Done
    /\ HubForwardRedirected
    /\ replies[1].status = 307
    /\ replies[1].location = BlobUrl
    /\ calls[2].url = BlobUrl
    /\ resp = Upstream(200, "upstream-200")

\* the image path of a request addressed to the default registry, implicitly
\* or through register/docker/hub: Null for any other request
HubImageOf(pathname) ==
    IF \E i \in ImagePaths : pathname = V2Prefix \o i
    THEN CHOOSE i \in ImagePaths : pathname = V2Prefix \o i
    ELSE IF \E i \in ImagePaths : pathname = V2Prefix \o HubHead \o <<"/">> \o i
    THEN CHOOSE i \in ImagePaths : pathname = V2Prefix \o HubHead \o <<"/">> \o i
    ELSE Null

\* the image path with the default namespace carried exactly once
Namespaced(image) ==
    IF IsOfficialName(RepoNameOf(image)) THEN <<"library", "/">> \o image ELSE image

\* C3 as stated: the path forwarded to the default registry is the image
\* path with library/ in front of a single-segment repository name and
\* unchanged otherwise, a namespaced or digest-qualified path is never
\* redirected, and normalizing twice is normalizing once.
C3_NamespaceExactlyOnce ==
    (pc # "idle" /\ variant # "V0" /\ HubImageOf(req.pathname) # Null)
    => LET image == HubImageOf(req.pathname)
       IN  /\ (calls # <<>> /\ calls[1].stage = "forward")
                => calls[1].url = <<DOCKER_HUB_URL, "/", "v2", "/">>
                                   \o Namespaced(image) \o req.search
           /\ ~IsOfficialName(RepoNameOf(image))
                => ~(Answered /\ resp.status = 301)
           /\ Namespaced(Namespaced(image)) = Namespaced(image)

\* the scope parameter of a token URL, decoded
DecodeAtom(a) ==
    CASE a = "%3A" -> ":"
      [] a = "%2F" -> "/"
      [] a = "%2C" -> ","
      [] OTHER -> a

ScopeSentIn(url) ==
    LET at == Min({i \in 1..Len(url) : url[i] = "scope="})
        stop == Min({i \in (at + 1)..(Len(url) + 1) : i = Len(url) + 1 \/ url[i] = "&"})
    IN  [i \in 1..(stop - at - 1) |-> DecodeAtom(url[at + i])]

BusyboxPull == <<"repository", ":", "busybox", ":">> \o Pull

LibraryBusyboxPull == <<"repository", ":", "library", "/", "busybox", ":">> \o Pull

\* C4 as stated: a token request whose service is the default registry's
\* (given as such or as the gateway's own service name) relays the scope
\* repository:busybox:pull as repository:library/busybox:pull, and a scope
\* whose name has a namespace unchanged.
C4_TokenScopeNamespaced ==
    \A i \in 1..Len(calls) :
        (calls[i].stage = "token"
            /\ req.service \in {<<"registry.docker.io">>, <<"cloudflare-docker-proxy">>}
            /\ req.scope \in Scopes \ {Null, <<"busybox">>})
        => ScopeSentIn(calls[i].url)
             = (IF req.scope = BusyboxPull THEN LibraryBusyboxPull ELSE req.scope)

\* the allow-list of the target a generic path resolves to
AllowedFor(pathname) ==
    {"accept", "content-type", "authorization", "user-agent"}
    \cup (IF Len(pathname) >= 4 /\ pathname[2] = "ai" /\ pathname[4] = "claude"
          THEN {"anthropic-version"} ELSE {})

\* C5: every header the Generic Forwarder sends upstream is named, up to
\* case, in accept, content-type, authorization, user-agent or the extra
\* allow-list of the matched target; any other inbound header is dropped.
C5_OnlyAllowedHeadersForwarded ==
    \A i \in 1..Len(calls) :
        calls[i].stage = "generic"
        => \A h \in calls[i].headers : Lower(h.name) \in AllowedFor(req.pathname)

\* C5 witness: /ai/claude/v1/messages arrived with content-type,
\* authorization, anthropic-version and x-random, and the call to
\* api.anthropic.com carries the first three
C5_Witness ==
    /\ pc = "generic"
    /\ req.pathname = <<"/", "ai", "/", "claude", "/", "v1", "/", "messages">>
    /\ req.headers = HeaderPool
    /\ calls[1].url = <<"https://api.anthropic.com", "/", "v1", "/", "messages">> \o Query
    /\ {h.name : h \in calls[1].headers}
         = {"content-type", "authorization", "anthropic-version"}

\* C6 as stated: for every prefix P of a configured table, P + "/x" resolves
\* to P with remainder "/x", and P + "x" does not resolve to P.
C6_SegmentBoundary ==
    (rt.phase = "routed" /\ rt.table \in ConfiguredTables(variant))
    => \A P \in Range(rt.table) :
          /\ rt.path = P \o <<"/", "x">>
                => (rt.result.prefix = P /\ rt.result.rest = <<"/", "x">>)
          /\ rt.path = P \o <<"x">> => rt.result.prefix # P

\* C7 as stated: when one prefix of the table is a proper string-prefix of
\* another and the path continues both with "/", the router returns the
\* longer one, whatever the order of the table.
C7_LongestPrefixWins ==
    rt.phase = "routed"
    => \A i, j \in 1..Len(rt.table) :
          LET P == rt.table[i]
              Q == rt.table[j]
          IN  (/\ Len(P) < Len(Q)
               /\ StartsWith(Q, P)
               /\ StartsWith(rt.path, P \o <<"/">>)
               /\ StartsWith(rt.path, Q \o <<"/">>))
              => rt.result.prefix # P

\* C8 as stated: every response returned to a client carries the three
\* security headers with the gateway's values.
C8_SecurityHeadersOnEveryResponse ==
    Answered
    => (resp.xcto = "nosniff" /\ resp.xfo = "DENY" /\ resp.rp = "no-referrer")

\* every key of every route table
AllPrefixes ==
    UNION {Range(t) : t \in UNION {ConfiguredTables(v) : v \in Variants}}

\* C9 as stated: a path that is no static page, no token endpoint, not under
\* /v2/ and does not start with a configured prefix is answered 404 with
\* the JSON body {"error":"Not Found"}, and no upstream call is made.
C9_UnknownPathIs404Json ==
    (Done /\ req.pathname \notin (StaticPaths \cup TokenPaths)
        /\ ~StartsWith(req.pathname, V2Prefix)
        /\ \A P \in AllPrefixes : ~StartsWith(req.pathname, P))
    => /\ resp.kind = "response"
       /\ resp.status = 404
       /\ resp.body = "{\"error\":\"Not Found\"}"
       /\ calls = <<>>

\* C10 as stated: when an upstream fetch of the request fails with a network
\* error the client receives an HTTP 500 with a generic body, and the call
\* is not made again.
C10_NetworkErrorIs500 ==
    (Done /\ \E i \in 1..Len(replies) : replies[i].kind = "error")
    => /\ resp.kind = "response"
       /\ resp.status = 500
       /\ Len(calls) = Len(replies)

\* the upstream's header names no realm or no service (or is absent)
Unparseable(header) ==
    ~Includes(header, <<"realm=\"">>) \/ ~Includes(header, <<"service=\"">>)

\* C11 as stated: a 401 of the upstream whose WWW-Authenticate is absent or
\* lacks realm= or service= ends the request with a 500; no challenge with
\* a defaulted realm or service is returned.
C11_UnparseableChallengeIs500 ==
    (Done /\ (FirstReplyIs("ping", 401) \/ FirstReplyIs("forward", 401))
        /\ Unparseable(replies[1].wwwAuth))
    => /\ resp.kind = "response"
       /\ resp.status = 500
       /\ resp.wwwAuth = Empty

\* the discovery probe of a token request was answered by a response that
\* carries no WWW-Authenticate header
ProbeWithoutChallenge ==
    /\ Len(replies) >= 1
    /\ calls[1].stage = "probe"
    /\ replies[1].kind = "response"
    /\ replies[1].wwwAuth = Empty

\* C12: when the discovery probe of the token endpoint returns no
\* WWW-Authenticate header, the request ends at once with a 500 whose body
\* says that the upstream challenge could not be obtained, and no token
\* request is sent to any realm.
C12_ProbeWithoutChallengeIs500 ==
    ProbeWithoutChallenge
    => /\ Done
       /\ resp.kind = "response"
       /\ resp.status = 500
       /\ resp.body = "{\"error\":\"Failed to get upstream authentication challenge\"}"
       /\ Len(calls) = 1
       /\ \A i \in 1..Len(calls) : calls[i].stage # "token"

\* C12 witness: the probe of a /v2/auth request for busybox came back 200
\* with no challenge and the client holds the 500
C12_Witness ==
    /\ ProbeWithoutChallenge
    /\ req.pathname = <<"/", "v2", "/", "auth">>
    /\ req.scope = BusyboxPull
    /\ replies[1].status = 200
    /\ calls[1].url = PingUrl
    /\ resp.status = 500
    /\ pc = "done"

\* the values of the Authorization headers of a set of headers
AuthorizationIn(headers) ==
    {h.value : h \in {x \in headers : Lower(x.name) = "authorization"}}

\* C13 as stated: every token request sent upstream carries the client's
\* Authorization value unchanged when the client sent one, and no
\* Authorization header when the client sent none.
C13_AuthorizationRelayedVerbatim ==
    \A i \in 1..Len(calls) :
        calls[i].stage = "token"
        => AuthorizationIn(calls[i].headers) = AuthorizationIn(req.headers)

\* C13 amended: every token request sent upstream carries the client's
\* Authorization value unchanged when the client sent a non-empty one, and
\* no Authorization header when the client sent none.
C13_NonEmptyAuthorizationRelayed ==
    \A i \in 1..Len(calls) :
        (calls[i].stage = "token" /\ "" \notin AuthorizationIn(req.headers))
        => AuthorizationIn(calls[i].headers) = AuthorizationIn(req.headers)

\* C13 witness: the token request that follows the probe of a /v2/auth
\* request carries the client's Basic credentials
C13_Witness ==
    /\ Len(calls) = 2
    /\ calls[1].stage = "probe"
    /\ calls[2].stage = "token"
    /\ AuthorizationIn(req.headers) = {"Basic Zm9v"}
    /\ AuthorizationIn(calls[2].headers) = {"Basic Zm9v"}

\* C14 as stated: every token GET is the second upstream call of its
\* request, the first being a GET of the upstream ping endpoint that
\* carries no credentials, and it is addressed to the realm named by the
\* WWW-Authenticate header of that probe's reply.
C14_RealmDiscoveredByProbe ==
    \A i \in 1..Len(calls) :
        calls[i].stage = "token"
        => /\ i = 2
           /\ calls[1].url = PingUrl
           /\ calls[1].method = "GET"
           /\ AuthorizationIn(calls[1].headers) = {}
           /\ replies[1].kind = "response"
           /\ StartsWith(calls[i].url, FirstRealmOf(replies[1].wwwAuth))

\* a remainder with exactly one leading slash
RECURSIVE StripSlashes(_)
StripSlashes(r) ==
    IF r # Empty /\ Head(r) = "/" THEN StripSlashes(Tail(r)) ELSE r

OneLeadingSlash(r) == <<"/">> \o StripSlashes(r)

\* the AI routes the requests of the model address, with their base URLs
AiRoutes ==
    {[prefix |-> <<"/", "ai", "/", "openai">>, baseUrl |-> "https://api.openai.com"],
     [prefix |-> <<"/", "ai", "/", "claude">>, baseUrl |-> "https://api.anthropic.com"]}

\* C15 as stated: the URL of a generic forward is the base URL of the
\* matched entry, then the remainder of the path with exactly one leading
\* slash (whatever the remainder: empty, or beginning with several
\* slashes), then the query.
C15_TargetUrlOneLeadingSlash ==
    \A E \in AiRoutes :
        (calls # <<>> /\ calls[1].stage = "generic" /\ StartsWith(req.pathname, E.prefix))
        => calls[1].url = <<E.baseUrl>>
                           \o OneLeadingSlash(Slice(req.pathname, Len(E.prefix)))
                           \o req.search

\* C16 as stated: when the 401 of the upstream names a scope, the challenge
\* returned to the client names the same scope, whatever the number of its
\* actions (the scopes the upstreams of the model send already carry their
\* namespace, so no correction applies to them).
C16_UpstreamScopePropagated ==
    (Done /\ FirstReplyIs("forward", 401)
        /\ ParamOf(replies[1].wwwAuth, "scope=\"") # Null)
    => /\ resp.kind = "response"
       /\ resp.status = 401
       /\ ParamOf(resp.wwwAuth, "scope=\"") = ParamOf(replies[1].wwwAuth, "scope=\"")

\* the registry selectors a /v2/ path may begin with
Selectors ==
    {HubHead \o <<"/">>, GithubHead \o <<"/">>,
     <<"registry", "/", "docker", "/", "hub", "/">>}

\* the image path of a /v2/ request that names a repository (it has a
\* /manifests/ or /blobs/ part), with the registry it is addressed to: the
\* image is Null for a request that names none
RepositoryRequest(pathname) ==
    LET named == {i \in ImagePaths :
                    Includes(i, <<"/", "manifests", "/">>)
                    \/ Includes(i, <<"/", "blobs", "/">>)}
        direct == {i \in named : pathname = V2Prefix \o i}
        hub == {i \in named : pathname = V2Prefix \o HubHead \o <<"/">> \o i}
        github == {i \in named : pathname = V2Prefix \o GithubHead \o <<"/">> \o i}
    IN  IF direct # {} THEN [image |-> CHOOSE i \in direct : TRUE, default |-> TRUE]
        ELSE IF hub # {} THEN [image |-> CHOOSE i \in hub : TRUE, default |-> TRUE]
        ELSE IF github # {}
        THEN [image |-> CHOOSE i \in github : TRUE, default |-> FALSE]
        ELSE [image |-> Null, default |-> FALSE]

\* repository:<repo>:pull for the repository of an image path
PullScopeOf(image, default) ==
    LET repo == RepoNameOf(image)
    IN  <<"repository", ":">>
        \o (IF default /\ ~Includes(repo, <<"/">>)
            THEN <<"library", "/">> \o repo ELSE repo)
        \o <<":">> \o Pull

\* C17 as stated: when the 401 of the upstream names realm and service but
\* no scope and the forwarded request names a repository, the challenge
\* returned to the client has scope repository:<repo>:pull, <repo> being
\* the part of the image path before /manifests/ or /blobs/, with library/
\* in front when it is a single segment on the default registry (the
\* challenge is the registry's own: its service is registry.docker.io
\* exactly when the request is addressed to the default registry).
C17_ScopeSynthesizedFromPath ==
    (Done /\ FirstReplyIs("forward", 401)
        /\ RepositoryRequest(req.pathname).image # Null
        /\ ~Unparseable(replies[1].wwwAuth)
        /\ ParamOf(replies[1].wwwAuth, "scope=\"") = Null
        /\ (ParamOf(replies[1].wwwAuth, "service=\"") = <<"registry.docker.io">>)
             = RepositoryRequest(req.pathname).default)
    => LET q == RepositoryRequest(req.pathname)
       IN  /\ resp.kind = "response"
           /\ resp.status = 401
           /\ ParamOf(resp.wwwAuth, "scope=\"") = PullScopeOf(q.image, q.default)

\* the ping of the gateway was answered 401 by the default registry with a
\* challenge that names no scope
PingChallenged ==
    /\ Done
    /\ req.pathname = V2Prefix
    /\ FirstReplyIs("ping", 401)
    /\ ParamOf(replies[1].wwwAuth, "scope=\"") = Null

\* the probe of the ping: one call to the default registry's /v2/ that
\* does not follow redirects
PingProbedManually ==
    /\ Len(calls) = 1
    /\ calls[1].url = PingUrl
    /\ calls[1].redirect = "manual"

\* C18 as stated: a ping answered 401 by the default registry is answered
\* with a rewritten challenge that carries no scope, and the probe is made
\* with redirect-following disabled.
C18_PingChallengeWithoutScope ==
    PingChallenged
    => /\ PingProbedManually
       /\ resp.kind = "response"
       /\ resp.status = 401
       /\ ParamOf(resp.wwwAuth, "realm=\"")[2] = req.host
       /\ ParamOf(resp.wwwAuth, "scope=\"") = Null

\* C18 amended: a ping answered 401 by the default registry is answered
\* with a rewritten challenge whose scope names no repository (it is
\* absent, or the generic repository:*:pull), and the probe is made with
\* redirect-following disabled.
C18_PingChallengeNamesNoRepository ==
    PingChallenged
    => /\ PingProbedManually
       /\ resp.kind = "response"
       /\ resp.status = 401
       /\ ParamOf(resp.wwwAuth, "realm=\"")[2] = req.host
       /\ ParamOf(resp.wwwAuth, "scope=\"") \in {Null, GenericScope}

\* C18 witness: the ping of the part_000 handler was answered 401 with the
\* default registry's challenge and the client holds a challenge with the
\* generic scope
C18_Witness ==
    /\ PingChallenged
    /\ variant = "A"
    /\ replies[1].wwwAuth = HubChallenge
    /\ resp.status = 401
    /\ ParamOf(resp.wwwAuth, "scope=\"") = GenericScope

\* the selectors of the registry table a handler family routes /v2/ paths
\* with, written without a leading slash
RegistrySelectors(v) ==
    CASE v = "C" -> {Slice(k, 1) : k \in {x \in Range(Keys(apiConfigs)) :
                                            StartsWith(x, <<"/", "registry", "/">>)}}
      [] v = "V0" -> {Slice(k, 1) : k \in {x \in Range(Keys(apiMapping)) :
                                             StartsWith(x, <<"/", "registry", "/">>)}}
      [] OTHER -> Range(Keys(registryConfigs))

\* a non-ping /v2/ path whose remainder begins with a name, and with no
\* selector of the table
UnroutedV2(v, pathname) ==
    /\ StartsWith(pathname, V2Prefix)
    /\ pathname \notin TokenPaths
    /\ Slice(pathname, Len(V2Prefix)) # Empty
    /\ Head(Slice(pathname, Len(V2Prefix))) # "/"
    /\ \A k \in RegistrySelectors(v) :
          /\ Slice(pathname, Len(V2Prefix)) # k
          /\ ~StartsWith(Slice(pathname, Len(V2Prefix)), k \o <<"/">>)

EndsWith(s, t) == Len(t) <= Len(s) /\ SubSeq(s, Len(s) - Len(t) + 1, Len(s)) = t

\* C19 as stated: a non-ping /v2/ request whose remainder matches no entry
\* of the registry table is forwarded to registry-1.docker.io with the
\* remainder as the image path, and is never answered by the gateway
\* itself for lack of a route.
C19_UnmatchedGoesToDefaultRegistry ==
    (pc # "idle" /\ UnroutedV2(variant, req.pathname))
    => /\ calls # <<>>
       /\ calls[1].stage = "forward"
       /\ StartsWith(calls[1].url, <<DOCKER_HUB_URL, "/", "v2", "/">>)
       /\ EndsWith(calls[1].url, Slice(req.pathname, Len(V2Prefix)) \o req.search)

\* the call forwards a request that selects the registry ghcr.io, under
\* /v2/ or under /registry/
ToGithubRegistry(call) ==
    /\ call.stage \in {"forward", "generic"}
    /\ call.url[1] = "https://ghcr.io"
    /\ \/ StartsWith(req.pathname, V2Prefix \o GithubHead \o <<"/">>)
       \/ StartsWith(req.pathname, V2Prefix \o <<"registry", "/", "github", "/">>)
       \/ StartsWith(req.pathname, <<"/", "registry", "/", "github", "/">>)

\* the forward of a request addressed to a registry other than the default
\* one was answered 307 or 302
OtherRegistryRedirected ==
    /\ Len(replies) >= 1
    /\ calls[1].stage \in {"forward", "generic"}
    /\ ToGithubRegistry(calls[1])
    /\ replies[1].kind = "response"
    /\ replies[1].status \in {307, 302}

\* C20 as stated: a 307 or 302 answered to a request that was resolved to a
\* registry other than the default one is not chased, neither by the
\* handler nor by the fetch: the forward does not follow redirects, no
\* second upstream call is made, and the client receives the upstream's
\* status and Location with the three security headers set.
C20_OtherRegistryRedirectRelayed ==
    /\ \A i \in 1..Len(calls) :
          ToGithubRegistry(calls[i]) => calls[i].redirect = "manual"
    /\ OtherRegistryRedirected
       => /\ Done
          /\ Len(calls) = 1
          /\ resp = addSecurityHeaders(replies[1])
          /\ resp.status = replies[1].status
          /\ resp.location = replies[1].location
          /\ resp.xcto = "nosniff" /\ resp.xfo = "DENY" /\ resp.rp = "no-referrer"

\* the upstream calls of the request that have not returned yet
InFlight == Len(calls) - Len(replies)

\* the handler is suspended at an await of an upstream call
Suspended == pc \in {"ping", "forward", "blob", "generic", "probe", "token"}

\* C21: within one client request the upstream calls are strictly
\* sequential: a call is issued only when every earlier call has returned,
\* at most one call is in flight, the handler is suspended exactly while a
\* call is in flight, and no call repeats an earlier call (no retry).
C21_UpstreamCallsSequential ==
    /\ Len(replies) <= Len(calls)
    /\ InFlight <= 1
    /\ Suspended <=> InFlight = 1
    /\ Len(calls) <= 2
    /\ \A i, j \in 1..Len(calls) :
        i < j => /\ calls[j].stage \in {"blob", "token"}
                 /\ calls[i].stage = (IF calls[j].stage = "blob"
                                      THEN "forward" ELSE "probe")
                 /\ calls[i].url # calls[j].url

\* the forward returned a redirect and the blob fetch that followed returned
C21_Witness ==
    /\ Done
    /\ Len(calls) = 2
    /\ Len(replies) = 2
    /\ calls[2].stage = "blob"

\* the URL the gateway forwards request r to, a client following the 301s of
\* the gateway at most n times; Null when no upstream call is made
RECURSIVE UpstreamUrlOf(_, _, _)
UpstreamUrlOf(v, r, n) ==
    LET step == Start(v, r)
    IN  IF step.call # <<>> THEN step.call[1].url
        ELSE IF step.resp.status = 301 /\ n > 0
        THEN UpstreamUrlOf(v, FollowedRequest(r, step.resp), n - 1)
        ELSE Null

\* the default registry addressed by its selector
ExplicitHubPath(image) == V2Prefix \o HubHead \o <<"/">> \o image

\* C22: a request for /v2/register/docker/hub/<image-path> is forwarded to
\* the URL a request for /v2/<image-path> is forwarded to, the library
\* namespace of a single-segment repository name included.
C22_ExplicitEqualsImplicit ==
    \A image \in ImagePaths :
        (/\ pc # "idle"
         /\ req.hop = 0
         /\ req.pathname = ExplicitHubPath(image))
        => /\ UpstreamUrlOf(variant, req, MaxHops)
                = UpstreamUrlOf(variant, [req EXCEPT !.pathname = V2Prefix \o image],
                                MaxHops)
           /\ Len(calls) >= 1 => calls[1].url = UpstreamUrlOf(variant, req, 0)

\* the upstream challenges Bearer realm="...",service="..."[,scope="..."]
WellFormedChallenges ==
    {c \in UpChallenges :
        \/ StartsWith(c, HubChallenge)
        \/ StartsWith(c, Challenge(GhcrRealm, <<"ghcr.io">>))}

\* how many realm parameters a challenge has
RealmCount(header) == Cardinality({i \in 1..Len(header) : header[i] = "realm=\""})

\* the token endpoint a handler family names in its challenges
TokenEndpoint(v) == IF v = "B" THEN "/v2/auth" ELSE "/v2/token"

\* C23: when the upstream answers a ping or a forwarded /v2/ request with
\* 401 and a challenge Bearer realm="...",service="..."[,scope="..."], the
\* WWW-Authenticate header of the client's 401 has exactly one realm
\* parameter, its value is the gateway's token endpoint at the inbound host,
\* and the upstream's realm URL occurs nowhere in the header.
C23_ExactlyOneGatewayRealm ==
    (/\ Done
     /\ StartsWith(req.pathname, V2Prefix)
     /\ FirstReplyIs("ping", 401) \/ FirstReplyIs("forward", 401)
     /\ replies[1].wwwAuth \in WellFormedChallenges)
    => /\ resp.kind = "response"
       /\ resp.status = 401
       /\ RealmCount(resp.wwwAuth) = 1
       /\ RealmsIn(resp.wwwAuth) = {GatewayRealm(req.host, TokenEndpoint(variant))}
       /\ ~Includes(resp.wwwAuth, HubRealm)
       /\ ~Includes(resp.wwwAuth, GhcrRealm)

\* the gateway answered the request with a 301 of its own
Redirected == Done /\ resp.kind = "response" /\ resp.status = 301

\* C24: a client that follows the 301 of the namespace correction is not
\* redirected again: the request made for the redirect's Location is never
\* answered 301, so no chain of redirects is longer than one.
C24_RedirectChainAtMostOne ==
    /\ req.hop <= 1
    /\ req.hop = 1 => /\ ~Redirected
                      /\ StartsWith(req.pathname, V2Prefix \o <<"library", "/">>)
                      /\ ~NeedsRedirectB(Slice(req.pathname, Len(V2Prefix)))

\* the client followed the 301 and its second request was forwarded upstream
\* and answered
C24_Witness ==
    /\ variant = "B"
    /\ req.hop = 1
    /\ Done
    /\ Len(calls) >= 1
    /\ calls[1].stage = "forward"

\* the request is the token request of a client that was challenged on
\* behalf of a registry other than the default one, whose 401 named a token
\* realm of its own
ChallengedByOtherRegistry ==
    /\ pc # "idle"
    /\ req.origin # ""
    /\ req.origin # DOCKER_HUB_URL
    /\ req.originRealm # Null
    /\ req.originRealm # HubRealm

\* C25: a token request that follows the 401 of a registry other than the
\* default one is relayed to the token realm that registry named: no token
\* call, and no call that carries the client's Authorization header, goes
\* to the default registry's auth server.
C25_CredentialsOnlyToIssuingRealm ==
    ChallengedByOtherRegistry
    => \A i \in 1..Len(calls) :
        /\ calls[i].stage = "token" => StartsWith(calls[i].url, req.originRealm)
        /\ AuthorizationIn(calls[i].headers) # {}
            => HostOf(calls[i].url) # HostOf(AuthDockerIo)

\* C26: the fetch of a blob redirect's Location is a GET of that Location
\* with no request headers at all, whatever headers the client sent: in
\* particular it carries no Authorization header.
C26_BlobFetchCarriesNoClientHeaders ==
    \A i \in 1..Len(calls) :
        calls[i].stage = "blob"
        => /\ calls[i].headers = NoHeaders
           /\ AuthorizationIn(calls[i].headers) = {}
           /\ calls[i].method = "GET"
           /\ i >= 2
           /\ Len(replies) >= i - 1
           /\ calls[i].url = replies[i - 1].location

\* a request that carried an Authorization header was redirected by the
\* default registry and the Location was fetched
C26_Witness ==
    /\ Len(calls) = 2
    /\ calls[2].stage = "blob"
    /\ AuthorizationIn(req.headers) # {}
    /\ AuthorizationIn(calls[1].headers) # {}

=============================================================================
